---- MODULE Spec2Model ----
(***************************************************************************)
(* MultiPairBackTester (src/src/strategy/backtest.py): the day-by-day      *)
(* backtest loop, the open/close transitions of the pair ledger and the    *)
(* equity curve.                                                           *)
(*                                                                         *)
(* Numbers.  The program computes in floats; the model computes in fixed   *)
(* point.  A price is a whole number of dollars.  A percentage change is   *)
(* kept in units of 1/RetScale.  Money (portfolio value, costs, PnL) is    *)
(* kept in units of 1/MoneyScale dollar, MoneyScale = 1000 * RetScale, so  *)
(* that a per-mille transaction cost of a product of a quantity and a      *)
(* percentage change is a whole number of units.  The prices recorded in   *)
(* a position or a trade record are kept in units of 1/RetScale, so that   *)
(* a price level and a percentage change are comparable values.            *)
(***************************************************************************)
EXTENDS Integers, Sequences, FiniteSets, TLC

VARIABLES
    cfg,              \* the constructor's arguments and the collaborators given
    pc,               \* "ready" (constructed), "loop" (inside run_backtest), "done"
    i,                \* run_backtest: the loop index
    portfolio_value,  \* run_backtest: the local portfolio_value
    features_cache,   \* run_backtest: the local features_cache
    equity_curve,     \* self.equity_curve
    active_pairs,     \* self.active_pairs
    trade_history,    \* self.trade_history
    pair_performance, \* self.pair_performance
    log,              \* what the logger was given: warnings and errors, in order
    halted,           \* the loop was left by the break of the risk-limit check
    twin,             \* a second backtester, constructed with the same arguments
                      \* and run beside the first: its collaborators give it at
                      \* every call the answer the first one's give
    previous,         \* what the first call of run_backtest left, once
                      \* run_backtest is called again on the same object
    fe_call,          \* a call of FeatureEngineer.generate_features
    report            \* what generate_report has returned, once it was called

vars == <<cfg, pc, i, portfolio_value, features_cache, equity_curve,
          active_pairs, trade_history, pair_performance, log, halted, twin,
          previous, fe_call, report>>

----------------------------------------------------------------------------
(* Bounds of the model *)

\* Timesteps of the general price table after the first feature refresh.
TradeSteps == 2

\* Timesteps before the first feature refresh at which the collaborators are
\* free; at the earlier ones the strategy emits 0 for every pair.
WarmupWindow == 1

\* The longest trade log a run of the free strategy is followed to.
MaxTrades == 3

\* The most failed timesteps a run of the free strategy is followed to.
MaxErrors == 1

\* Dates of the price table that has a single symbol.
ShortDates == 3

----------------------------------------------------------------------------
(* Program constants *)

RefreshInterval == 20

DefaultInitialCapital == 100000

RetScale == 10

MoneyScale == 1000 * RetScale

\* confidence 1.0, in percent
FullConfidence == 100

\* max_pairs = None: no cap was given
None == -1

----------------------------------------------------------------------------
(* The price table and the table of percentage changes (__init__) *)

\* Table "W": the worked scenario's five days of A and B.
\* Table "G": three symbols over RefreshInterval + TradeSteps days, each a
\* cycle of four prices whose successive percentage changes are whole tenths.
\* Table "S": the column A of table "G" alone, over ShortDates days.
\* Table "E": the columns A and B with no row.
NumDates(table) ==
    CASE table = "W" -> 5
      [] table = "S" -> ShortDates
      [] table = "E" -> 0
      [] OTHER -> RefreshInterval + TradeSteps

Dates(table) == 0 .. (NumDates(table) - 1)

Columns(table) ==
    CASE table \in {"W", "E"} -> {"A", "B"}
      [] table = "S" -> {"A"}
      [] OTHER -> {"A", "B", "C"}

WorkedPrices ==
    [A |-> <<100, 101, 102, 103, 104>>, B |-> <<100, 100, 99, 101, 100>>]

CyclePrices ==
    [A |-> <<10, 20, 10, 5>>, B |-> <<20, 20, 10, 10>>, C |-> <<20, 10, 10, 20>>]

\* self.prices[s].loc[d]: the price level of symbol s on date d, in dollars
Prices(table, d, s) ==
    IF table = "W" THEN WorkedPrices[s][d + 1]
    ELSE CyclePrices[s][(d % 4) + 1]

\* a / b rounded toward zero
TruncDiv(a, b) == IF a >= 0 THEN a \div b ELSE -((-a) \div b)

\* DataFrame.pct_change of one cell, in units of 1/RetScale
PctChange(prev, cur) == TruncDiv((cur - prev) * RetScale, prev)

\* self.returns[s].loc[d]: prices.pct_change().ffill().bfill(); the first row
\* of pct_change is missing and bfill gives it the second row's value
Returns(table, d, s) ==
    IF d = 0 THEN PctChange(Prices(table, 0, s), Prices(table, 1, s))
    ELSE PctChange(Prices(table, d - 1, s), Prices(table, d, s))

----------------------------------------------------------------------------
(* Pair keys *)

AB == <<"A", "B">>
AC == <<"A", "C">>
BA == <<"B", "A">>
\* a pair whose second symbol the price table does not carry
AZ == <<"A", "Z">>

\* the canonical (lexical) order of pair keys
SymRank(s) == CASE s = "A" -> 1 [] s = "B" -> 2 [] s = "C" -> 3 [] OTHER -> 4

KeyLess(p, q) ==
    \/ SymRank(p[1]) < SymRank(q[1])
    \/ SymRank(p[1]) = SymRank(q[1]) /\ SymRank(p[2]) < SymRank(q[2])

Range(f) == {f[x] : x \in DOMAIN f}

----------------------------------------------------------------------------
(* The ledger: what one timestep reads and writes while it processes its   *)
(* pairs.  pv is the local portfolio_value threaded through the calls; exc *)
(* is set when an exception is propagating out of the step.                *)

Ledger(pv, active, trades, perf, lg) ==
    [pv |-> pv, active |-> active, trades |-> trades, perf |-> perf,
     log |-> lg, exc |-> FALSE]

Raise(L) == [L EXCEPT !.exc = TRUE]

\* the initial features_cache of run_backtest: the empty dict {}
EmptyDict == [kind |-> "dict", asOf |-> 0, empty |-> TRUE, conf |-> 0]

\* features.iloc[-1].to_dict() if not features.empty else {}
FeatureRow(features) ==
    IF features.empty THEN [asOf |-> 0, conf |-> 0]
    ELSE [asOf |-> features.asOf, conf |-> features.conf]

\* _validate_pair_trade
ValidatePairTrade(c, active, pair, quantity) ==
    IF ~(quantity > 0) THEN FALSE
    \* self.max_pairs is falsy when it is None and when it is 0
    ELSE IF c.max_pairs # None /\ c.max_pairs # 0
            /\ Cardinality(DOMAIN active) >= c.max_pairs THEN FALSE
    ELSE pair[1] \in Columns(c.table) /\ pair[2] \in Columns(c.table)

\* position_value of _open_position, in money units
PositionValue(c, pair, quantity, date) ==
    quantity * (Prices(c.table, date, pair[1]) + Prices(c.table, date, pair[2]))
        * MoneyScale

\* total_cost of _open_position: position_value * transaction_cost
EntryCost(c, pair, quantity, date) ==
    quantity * (Prices(c.table, date, pair[1]) + Prices(c.table, date, pair[2]))
        * c.transaction_cost * RetScale

\* the position _open_position stores in active_pairs
Position(signal, quantity, date, price1, price2, confidence, features, total_cost) ==
    [signal |-> signal,
     quantity |-> quantity,
     entry_date |-> date,
     entry_prices |-> <<price1 * RetScale, price2 * RetScale>>,
     confidence |-> confidence,
     features |-> FeatureRow(features),
     transaction_costs |-> total_cost]

\* the row _open_position appends to trade_history
EntryRecord(pair, signal, quantity, date, price1, price2, confidence, total_cost) ==
    [Date |-> date, Pair |-> pair, Action |-> "ENTRY",
     Quantity |-> quantity * signal,
     Price1 |-> price1 * RetScale, Price2 |-> price2 * RetScale,
     Cost |-> total_cost, HasPnL |-> FALSE, PnL |-> 0,
     Model_Confidence |-> confidence]

\* _open_position, lines 317-342: the capital check has passed
RecordOpen(L, pair, position, entry, position_value, total_cost) ==
    [L EXCEPT
        !.active = [p \in DOMAIN L.active \cup {pair} |->
                       IF p = pair THEN position ELSE L.active[p]],
        !.trades = Append(@, entry),
        !.pv = L.pv - total_cost - position_value]

\* OpenPosition with an exception raised where line 314 logs and line 315
\* returns
OpenPositionRaisesOnShortfall(L, c, pair, signal, quantity, date, confidence, features) ==
    IF PositionValue(c, pair, quantity, date) + EntryCost(c, pair, quantity, date)
           > L.pv
    THEN Raise(L)
    ELSE IF features.kind = "dict" THEN Raise(L)
    ELSE RecordOpen(L, pair,
            Position(signal, quantity, date,
                     Prices(c.table, date, pair[1]), Prices(c.table, date, pair[2]),
                     confidence, features, EntryCost(c, pair, quantity, date)),
            EntryRecord(pair, signal, quantity, date,
                     Prices(c.table, date, pair[1]), Prices(c.table, date, pair[2]),
                     confidence, EntryCost(c, pair, quantity, date)),
            PositionValue(c, pair, quantity, date),
            EntryCost(c, pair, quantity, date))

\* OpenPosition without the capital check of lines 313-315
OpenPositionUnchecked(L, c, pair, signal, quantity, date, confidence, features) ==
    IF features.kind = "dict" THEN Raise(L)
    ELSE RecordOpen(L, pair,
            Position(signal, quantity, date,
                     Prices(c.table, date, pair[1]), Prices(c.table, date, pair[2]),
                     confidence, features, EntryCost(c, pair, quantity, date)),
            EntryRecord(pair, signal, quantity, date,
                     Prices(c.table, date, pair[1]), Prices(c.table, date, pair[2]),
                     confidence, EntryCost(c, pair, quantity, date)),
            PositionValue(c, pair, quantity, date),
            EntryCost(c, pair, quantity, date))

\* _open_position
OpenPosition(L, c, pair, signal, quantity, date, confidence, features) ==
    IF PositionValue(c, pair, quantity, date) + EntryCost(c, pair, quantity, date)
           > L.pv
    THEN [L EXCEPT !.log = Append(@, [kind |-> "insufficient_capital",
                                      date |-> date, pair |-> pair])]
    \* features is still the dict {} the cache starts as: the read of
    \* features.empty raises before active_pairs is assigned
    ELSE IF features.kind = "dict" THEN Raise(L)
    ELSE RecordOpen(L, pair,
            Position(signal, quantity, date,
                     Prices(c.table, date, pair[1]), Prices(c.table, date, pair[2]),
                     confidence, features, EntryCost(c, pair, quantity, date)),
            EntryRecord(pair, signal, quantity, date,
                     Prices(c.table, date, pair[1]), Prices(c.table, date, pair[2]),
                     confidence, EntryCost(c, pair, quantity, date)),
            PositionValue(c, pair, quantity, date),
            EntryCost(c, pair, quantity, date))

\* the two values _close_position reads as current_price1 and current_price2,
\* in units of 1/RetScale: cells of self.returns
ExitPrice(c, date, s) == Returns(c.table, date, s)

\* spread_pnl of _close_position, in money units
SpreadPnl(position, current_price1, current_price2) ==
    position.quantity * position.signal
        * ((current_price1 - current_price2)
           - (position.entry_prices[1] - position.entry_prices[2])) * 1000

\* exit_value of _close_position, in money units
ExitValue(position, current_price1, current_price2) ==
    position.quantity * (current_price1 + current_price2) * 1000

\* exit_cost of _close_position: exit_value * transaction_cost
ExitCost(c, position, current_price1, current_price2) ==
    position.quantity * (current_price1 + current_price2) * c.transaction_cost

\* total_pnl of _close_position
TotalPnl(c, position, current_price1, current_price2) ==
    SpreadPnl(position, current_price1, current_price2)
        - position.transaction_costs
        - ExitCost(c, position, current_price1, current_price2)

\* RecordClose without the del of line 401: the closed pair stays in
\* active_pairs
RecordCloseKeepsPosition(L, pair, position, date, reason, price1, price2, exit_value, exit_cost, total_pnl) ==
    [L EXCEPT
        !.trades = Append(@,
            [Date |-> date, Pair |-> pair, Action |-> "EXIT",
             Quantity |-> -(position.quantity * position.signal),
             Price1 |-> price1, Price2 |-> price2,
             Cost |-> exit_cost, HasPnL |-> TRUE, PnL |-> total_pnl,
             Model_Confidence |-> position.confidence]),
        !.pv = L.pv + total_pnl]

\* _close_position, lines 372-402
RecordClose(L, pair, position, date, reason, price1, price2, exit_value, exit_cost, total_pnl) ==
    [L EXCEPT
        !.trades = Append(@,
            [Date |-> date, Pair |-> pair, Action |-> "EXIT",
             Quantity |-> -(position.quantity * position.signal),
             Price1 |-> price1, Price2 |-> price2,
             Cost |-> exit_cost, HasPnL |-> TRUE, PnL |-> total_pnl,
             Model_Confidence |-> position.confidence]),
        !.perf = [p \in DOMAIN L.perf \cup {pair} |->
                     IF p = pair
                     THEN Append(IF pair \in DOMAIN L.perf THEN L.perf[pair]
                                 ELSE <<>>,
                                 [Entry_Date |-> position.entry_date,
                                  Exit_Date |-> date,
                                  Holding_Period |-> date - position.entry_date,
                                  PnL |-> total_pnl,
                                  Return |-> [num |-> total_pnl,
                                              den |-> exit_value],
                                  Model_Confidence |-> position.confidence,
                                  Exit_Reason |-> reason])
                     ELSE L.perf[p]],
        !.active = [p \in DOMAIN L.active \ {pair} |-> L.active[p]],
        !.pv = L.pv + total_pnl]

\* _close_position
ClosePosition(L, c, pair, date, reason) ==
    IF pair \notin DOMAIN L.active THEN L
    ELSE RecordClose(L, pair, L.active[pair], date, reason,
            ExitPrice(c, date, pair[1]), ExitPrice(c, date, pair[2]),
            ExitValue(L.active[pair], ExitPrice(c, date, pair[1]),
                      ExitPrice(c, date, pair[2])),
            ExitCost(c, L.active[pair], ExitPrice(c, date, pair[1]),
                     ExitPrice(c, date, pair[2])),
            TotalPnl(c, L.active[pair], ExitPrice(c, date, pair[1]),
                     ExitPrice(c, date, pair[2])))

\* calculate_position_size when a risk manager is given (its answer rq), the
\* fixed fraction portfolio_value * strategy.max_position_size when none is;
\* a quantity is a whole number of units
SizedQuantity(c, pv, rq) ==
    IF c.risk_manager THEN rq
    ELSE TruncDiv(pv, MoneyScale * c.max_position_size_inv)

\* CloseOnSignal with the test of line 242 on the value of the signal
\* instead of its sign: any signal other than the stored one closes
CloseOnChangedSignal(L, c, pair, signal, date) ==
    IF pair \in DOMAIN L.active /\ signal # L.active[pair].signal
    THEN ClosePosition(L, c, pair, date, "Signal change")
    ELSE L

\* _process_pair_signal, lines 240-248: the close on a zero or opposite signal
CloseOnSignal(L, c, pair, signal, date) ==
    IF pair \in DOMAIN L.active
       /\ (signal = 0 \/ signal * L.active[pair].signal < 0)
    THEN ClosePosition(L, c, pair, date, "Signal change")
    ELSE L

\* OpenOnSignal with the return of lines 251-252 after the sizing of lines
\* 254-264
OpenOnSignalSizesFirst(L, c, pair, signal, date, confidence, features, rq, sizeRaises) ==
    IF signal # 0 /\ pair \notin DOMAIN L.active
    THEN IF c.risk_manager /\ sizeRaises THEN Raise(L)
         ELSE IF c.risk_manager /\ confidence < c.min_model_confidence THEN L
         ELSE IF ValidatePairTrade(c, L.active, pair, SizedQuantity(c, L.pv, rq))
         THEN OpenPosition(L, c, pair, signal, SizedQuantity(c, L.pv, rq), date,
                           confidence, features)
         ELSE L
    ELSE L

\* _process_pair_signal, lines 250-277: the open; sizeRaises:
\* calculate_position_size raises
OpenOnSignal(L, c, pair, signal, date, confidence, features, rq, sizeRaises) ==
    IF signal # 0 /\ pair \notin DOMAIN L.active
    THEN IF c.risk_manager /\ confidence < c.min_model_confidence THEN L
         ELSE IF c.risk_manager /\ sizeRaises THEN Raise(L)
         ELSE IF ValidatePairTrade(c, L.active, pair, SizedQuantity(c, L.pv, rq))
         THEN OpenPosition(L, c, pair, signal, SizedQuantity(c, L.pv, rq), date,
                           confidence, features)
         ELSE L
    ELSE L

\* ProcessPairSignal with the block of line 250 before the block of line
\* 240: the open is tried first, the close follows
ProcessPairSignalOpensFirst(L, c, pair, signal, date, confidence, features, rq, sizeRaises) ==
    CloseOnSignal(OpenOnSignal(L, c, pair, signal, date, confidence, features,
                               rq, sizeRaises),
                  c, pair, signal, date)

\* _process_pair_signal
ProcessPairSignal(L, c, pair, signal, date, confidence, features, rq, sizeRaises) ==
    OpenOnSignal(CloseOnSignal(L, c, pair, signal, date),
                 c, pair, signal, date, confidence, features, rq, sizeRaises)

----------------------------------------------------------------------------
(* One timestep's inputs: what the collaborators answer during the step.   *)
(*   sig    the strategy's signal for each pair of the raw structure       *)
(*   rows   long shape: the pairs that have a row in the table             *)
(*   conf   long shape: the confidence of each pair's last row             *)
(*   rq     the quantity calculate_position_size answers                   *)
(*   fe     the feature engineer at a refresh: "raise", or the frame       *)
(*   fault  the collaborator call that raises, if one does                 *)
(*   breach the first component of check_risk_limits' answer               *)

NoFault == [kind |-> "none", k |-> 0]

\* _prepare_features: the engineer's frame, or the price slice when it raises
PrepareFeatures(step, fe) ==
    IF fe.kind = "raise"
    THEN [kind |-> "raw", asOf |-> step, empty |-> FALSE, conf |-> 0]
    ELSE [kind |-> "frame", asOf |-> step, empty |-> fe.empty, conf |-> fe.conf]

\* StepFeatures without the test of line 75: the engineer is asked at every
\* step
StepFeaturesEveryStep(step, cache, fe) == PrepareFeatures(step, fe)

\* run_backtest, lines 75-79: the features of step `step`
StepFeatures(step, cache, fe) ==
    IF step % RefreshInterval = 0 THEN PrepareFeatures(step, fe) ELSE cache

\* the confidence _process_signals_and_update passes on for a pair, by shape
Confidence(c, pair, features, inp) ==
    CASE c.shape = "wide" ->
            IF features.kind # "dict" /\ features.conf # 0 THEN features.conf
            ELSE FullConfidence
      [] c.shape = "long" -> inp.conf[pair]
      [] OTHER -> FullConfidence

\* ProcessPair without the continue of lines 146-147, 176-177 and 205-206
ProcessPairWithoutSkip(L, c, date, features, inp, k) ==
    LET pair == c.pairs[k]
    IN  IF c.shape = "long" /\ pair \notin inp.rows THEN L
        ELSE IF inp.fault.kind = "lookup" /\ inp.fault.k = k THEN Raise(L)
        ELSE IF c.risk_manager /\ inp.fault.kind = "update" /\ inp.fault.k = k
        THEN Raise(L)
        ELSE ProcessPairSignal(L, c, pair, inp.sig[pair], date,
                               Confidence(c, pair, features, inp), features,
                               inp.rq,
                               inp.fault.kind = "size" /\ inp.fault.k = k)

\* one iteration of a for loop of _process_signals_and_update, k-th pair of
\* the raw structure (signals.columns, strategy.pairs or signals.items())
ProcessPair(L, c, date, features, inp, k) ==
    LET pair == c.pairs[k]
    IN  IF pair[1] \notin Columns(c.table) \/ pair[2] \notin Columns(c.table)
        THEN L
        ELSE IF c.shape = "long" /\ pair \notin inp.rows THEN L
        ELSE IF inp.fault.kind = "lookup" /\ inp.fault.k = k THEN Raise(L)
        ELSE IF c.risk_manager /\ inp.fault.kind = "update" /\ inp.fault.k = k
        THEN Raise(L)
        ELSE ProcessPairSignal(L, c, pair, inp.sig[pair], date,
                               Confidence(c, pair, features, inp), features,
                               inp.rq,
                               inp.fault.kind = "size" /\ inp.fault.k = k)

\* the ledger after the first k pairs; an exception ends the loop
ProcessPairsUpTo(L, c, date, features, inp, n) ==
    LET after[k \in 0 .. n] ==
            IF k = 0 THEN L
            ELSE IF after[k - 1].exc THEN after[k - 1]
            ELSE ProcessPair(after[k - 1], c, date, features, inp, k)
    IN  after[n]

\* _process_signals_and_update
ProcessSignalsAndUpdate(L, c, date, features, inp) ==
    ProcessPairsUpTo(L, c, date, features, inp, Len(c.pairs))

----------------------------------------------------------------------------
(* Configurations: the arguments a backtester is constructed with.         *)
(*   initial_capital in dollars; transaction_cost in per mille;            *)
(*   max_position_size_inv 1/strategy.max_position_size;                   *)
(*   pairs: the raw signal structure's pairs in its iteration order;       *)
(*   strategy: "worked" emits the worked scenario's signals, "both_long"   *)
(*   emits +1 for every pair from the first refresh on, "free" emits any   *)
(*   value of signals for any pair, "scripted" emits at the dates of       *)
(*   script the signal, confidence and quantity written there and 0 at     *)
(*   every other date.                                                     *)

BaseConfig ==
    [table |-> "G", initial_capital |-> 500, transaction_cost |-> 0,
     risk_manager |-> TRUE, min_model_confidence |-> 60, max_pairs |-> None,
     max_position_size_inv |-> 50, shape |-> "mapping",
     pairs |-> <<AB, AC>>, strategy |-> "free", signals |-> {-1, 0, 1},
     script |-> <<>>]

WorkedConfig ==
    [BaseConfig EXCEPT !.table = "W", !.initial_capital = DefaultInitialCapital,
                       !.transaction_cost = 1, !.pairs = <<AB>>,
                       !.strategy = "worked"]

\* one dated answer of a scripted strategy and risk manager
Event(at, sig, conf, rq) == [at |-> at, sig |-> sig, conf |-> conf, rq |-> rq]

ScriptedConfig == [BaseConfig EXCEPT !.strategy = "scripted", !.signals = {}]

\* the strategy emits 0 for every pair at every date; its collaborators are free
ZeroSignalConfig == [BaseConfig EXCEPT !.signals = {0}]

\* capital for the second pair of the container only, at the first date
\* after the refresh
ShortfallConfig ==
    [ScriptedConfig EXCEPT !.initial_capital = 350,
        !.script = <<Event(RefreshInterval + 1, 1, FullConfidence, 10)>>]

\* the signal structure carries the same two symbols in both orders
MirrorConfig ==
    [ScriptedConfig EXCEPT !.initial_capital = 700, !.pairs = <<AB, BA>>,
        !.script = <<Event(RefreshInterval, 1, FullConfidence, 10)>>]

\* max_pairs = 0
NoPairsConfig ==
    [ScriptedConfig EXCEPT !.max_pairs = 0, !.pairs = <<AB>>,
        !.script = <<Event(RefreshInterval, 1, FullConfidence, 10)>>]

\* max_pairs = 1 and capital for two positions
OnePairConfig ==
    [ScriptedConfig EXCEPT !.max_pairs = 1, !.initial_capital = 700,
        !.script = <<Event(RefreshInterval, 1, FullConfidence, 10)>>]

\* a long position is opened at the refresh and the opposite signal of the
\* next date comes with a confidence under the risk manager's minimum
LowConfidenceConfig ==
    [ScriptedConfig EXCEPT !.pairs = <<AC>>, !.shape = "long",
        !.script = <<Event(RefreshInterval, 1, FullConfidence, 10),
                     Event(RefreshInterval + 1, -1, 50, 10)>>]

\* a price table with the single symbol A
SingleSymbolConfig ==
    [ScriptedConfig EXCEPT !.table = "S", !.pairs = <<AB>>,
        !.script = <<Event(1, 1, FullConfidence, 10)>>]

\* a price table without a row
EmptyTableConfig == [ScriptedConfig EXCEPT !.table = "E", !.pairs = <<AB>>]

\* the first pair of the signal structure names a symbol the price table
\* does not carry; the structure has the given shape
AbsentSymbolConfig(shape) ==
    [ScriptedConfig EXCEPT !.shape = shape, !.pairs = <<AZ, AB>>,
        !.script = <<Event(RefreshInterval, 1, FullConfidence, 10)>>]

Configs ==
    { WorkedConfig, ZeroSignalConfig, ShortfallConfig, MirrorConfig,
      NoPairsConfig, OnePairConfig, LowConfidenceConfig,
      SingleSymbolConfig, EmptyTableConfig,
      AbsentSymbolConfig("wide"), AbsentSymbolConfig("long"),
      AbsentSymbolConfig("mapping"),
      [BaseConfig EXCEPT !.strategy = "both_long", !.shape = "wide"],
      [BaseConfig EXCEPT !.strategy = "both_long", !.shape = "wide",
                         !.pairs = <<AC, AB>>],
      BaseConfig,
      [BaseConfig EXCEPT !.transaction_cost = 1, !.pairs = <<AB>>,
                         !.shape = "long", !.signals = {-1, 0, 1, 2}],
      [BaseConfig EXCEPT !.risk_manager = FALSE, !.shape = "wide",
                         !.transaction_cost = 1, !.pairs = <<AC, AB>>,
                         !.signals = {0, 1}] }

Quantities == {0, 10}

Confidences == {50, FullConfidence}

\* what the feature engineer may do at a refresh
FeOutcomes ==
    { [kind |-> "raise", empty |-> FALSE, conf |-> 0],
      [kind |-> "frame", empty |-> FALSE, conf |-> 0],
      [kind |-> "frame", empty |-> FALSE, conf |-> 50] }

FeAt(step) ==
    IF step % RefreshInterval = 0 THEN FeOutcomes
    ELSE {[kind |-> "frame", empty |-> FALSE, conf |-> 0]}

\* the first step at which the free strategy's collaborators are free
ActiveFrom == RefreshInterval - WarmupWindow

Uniform(c, v) == [p \in Range(c.pairs) |-> v]

\* what a scripted strategy and risk manager answer at a step
ScriptAt(c, step) ==
    IF \E k \in 1 .. Len(c.script) : c.script[k].at = step
    THEN c.script[CHOOSE k \in 1 .. Len(c.script) : c.script[k].at = step]
    ELSE Event(step, 0, FullConfidence, 10)

\* the inputs of a step in which no collaborator raises and no limit is breached
StepInputs(c, step) ==
    CASE c.strategy = "worked" ->
            { [sig |-> Uniform(c, IF step \in {1, 2} THEN 1 ELSE 0),
               rows |-> Range(c.pairs), conf |-> Uniform(c, FullConfidence),
               rq |-> 10, fe |-> fe, fault |-> NoFault, breach |-> FALSE]
              : fe \in {[kind |-> "frame", empty |-> FALSE, conf |-> 0]} }
      [] c.strategy = "both_long" ->
            { [sig |-> Uniform(c, IF step >= RefreshInterval THEN 1 ELSE 0),
               rows |-> Range(c.pairs), conf |-> Uniform(c, FullConfidence),
               rq |-> 10, fe |-> fe, fault |-> NoFault, breach |-> FALSE]
              : fe \in {[kind |-> "frame", empty |-> FALSE, conf |-> 0]} }
      [] c.strategy = "scripted" ->
            { [sig |-> Uniform(c, ScriptAt(c, step).sig),
               rows |-> Range(c.pairs),
               conf |-> Uniform(c, ScriptAt(c, step).conf),
               rq |-> ScriptAt(c, step).rq, fe |-> fe, fault |-> NoFault,
               breach |-> FALSE]
              : fe \in {[kind |-> "frame", empty |-> FALSE, conf |-> 0]} }
      [] OTHER ->
            IF step < ActiveFrom
            THEN { [sig |-> Uniform(c, 0),
                    rows |-> Range(c.pairs), conf |-> Uniform(c, FullConfidence),
                    rq |-> 10, fe |-> fe, fault |-> NoFault, breach |-> FALSE]
                   : fe \in FeAt(step) }
            ELSE { [sig |-> sg, rows |-> Range(c.pairs),
                    conf |-> Uniform(c, cf), rq |-> q, fe |-> fe,
                    fault |-> NoFault, breach |-> FALSE]
                   : sg \in [Range(c.pairs) -> c.signals],
                     cf \in (IF c.shape = "long" THEN Confidences
                             ELSE {FullConfidence}),
                     q \in (IF c.risk_manager THEN Quantities ELSE {0}),
                     fe \in FeAt(step) }

\* the inputs of a step whose signals are never read
QuietInputs(c, step) ==
    { [sig |-> Uniform(c, 0), rows |-> Range(c.pairs),
       conf |-> Uniform(c, FullConfidence), rq |-> 10, fe |-> fe,
       fault |-> NoFault, breach |-> FALSE] : fe \in FeAt(step) }

\* the steps at which a collaborator may misbehave
Free(c, step) == c.strategy = "free" /\ step >= ActiveFrom

\* the strategy of the zero-signal configuration delivers its signal at
\* every step: neither its call nor the read of its answer raises
Delivers(c) == c.signals = {0}

----------------------------------------------------------------------------
(* The program *)

NaN == [nan |-> TRUE, v |-> 0]

Val(x) == [nan |-> FALSE, v |-> x]

LogEntry(kind, date) == [kind |-> kind, date |-> date, pair |-> <<>>]

\* Construct with a ledger that is not the constructed object's own: the
\* dict of line 41 already holds a position
ConstructOnUsedLedger(c) ==
    [pc |-> "ready", i |-> 0,
     portfolio_value |-> c.initial_capital * MoneyScale,
     features_cache |-> EmptyDict, equity_curve |-> <<>>,
     active_pairs |-> [p \in {c.pairs[1]} |->
                         Position(1, 1, 0, 0, 0, FullConfidence, EmptyDict, 0)],
     trade_history |-> <<>>, pair_performance |-> <<>>, log |-> <<>>,
     halted |-> FALSE]

\* __init__: the backtester a construction with the arguments c leaves
Construct(c) ==
    [pc |-> "ready", i |-> 0,
     portfolio_value |-> c.initial_capital * MoneyScale,
     features_cache |-> EmptyDict, equity_curve |-> <<>>,
     active_pairs |-> <<>>, trade_history |-> <<>>, pair_performance |-> <<>>,
     log |-> <<>>, halted |-> FALSE]

\* run_backtest up to the loop, lines 65-70, on the backtester E; on a price
\* table without a row the assignment of line 69 raises IndexError
Started(E, c) ==
    IF NumDates(c.table) = 0
    THEN [E EXCEPT !.equity_curve = <<>>, !.pc = "raised"]
    ELSE [E EXCEPT !.equity_curve = [d \in Dates(c.table) |->
                                       IF d = 0
                                       THEN Val(c.initial_capital * MoneyScale)
                                       ELSE NaN],
                   !.portfolio_value = c.initial_capital * MoneyScale,
                   !.features_cache = EmptyDict,
                   !.i = 1,
                   !.pc = "loop",
                   !.halted = FALSE]

\* before run_backtest is called a second time there is no previous call
NoPrevious == [ran |-> FALSE, equity_curve |-> <<>>, trade_history |-> <<>>]

\* no call of generate_features is in progress
FeIdle == [pc |-> "idle"]

\* generate_report has not been called
NoReport == [made |-> FALSE, raised |-> FALSE, num |-> 0, den |-> 1]

\* lines 74-92 of the loop body on the backtester E under the inputs inp
StepLedgerOf(E, c, inp) ==
    IF inp.fault.kind = "strategy"
    THEN Raise(Ledger(E.portfolio_value, E.active_pairs, E.trade_history,
                      E.pair_performance, E.log))
    ELSE ProcessSignalsAndUpdate(
            Ledger(E.portfolio_value, E.active_pairs, E.trade_history,
                   E.pair_performance,
                   IF E.i % RefreshInterval = 0 /\ inp.fe.kind = "raise"
                   THEN Append(E.log, LogEntry("feature_engineering_failed", E.i))
                   ELSE E.log),
            c, E.i, StepFeatures(E.i, E.features_cache, inp.fe), inp)

\* lines 94-106 of the loop body on the backtester E: L is the ledger its
\* calls left, checkRaises and breach what check_risk_limits does when called
Finished(E, L, features, checkRaises, breach) ==
    [pc |-> IF breach THEN "done" ELSE "loop",
     i |-> IF breach THEN E.i ELSE E.i + 1,
     portfolio_value |-> IF L.exc THEN E.portfolio_value ELSE L.pv,
     features_cache |-> features,
     equity_curve |-> IF L.exc THEN E.equity_curve
                      ELSE [E.equity_curve EXCEPT ![E.i] = Val(L.pv)],
     active_pairs |-> L.active,
     trade_history |-> L.trades,
     pair_performance |-> L.perf,
     log |-> IF L.exc \/ checkRaises THEN Append(L.log, LogEntry("error", E.i))
             ELSE IF breach THEN Append(L.log, LogEntry("risk_limits", E.i))
             ELSE L.log,
     halted |-> (E.halted \/ breach)]

\* the body of the loop for one date, lines 73-106, on the backtester E
Stepped(E, c, inp, L) ==
    Finished(E, L, StepFeatures(E.i, E.features_cache, inp.fe),
             ~L.exc /\ c.risk_manager /\ inp.fault.kind = "check",
             ~L.exc /\ c.risk_manager /\ inp.fault.kind # "check" /\ inp.breach)

Init ==
    /\ cfg \in Configs
    /\ pc = "ready"
    /\ i = 0
    /\ portfolio_value = cfg.initial_capital * MoneyScale
    /\ features_cache = EmptyDict
    /\ equity_curve = <<>>
    /\ active_pairs = <<>>
    /\ trade_history = <<>>
    /\ pair_performance = <<>>
    /\ log = <<>>
    /\ halted = FALSE
    /\ twin = Construct(cfg)
    /\ previous = NoPrevious
    /\ fe_call = FeIdle
    /\ report = NoReport

\* RunBacktest with the curve of line 66 created without the price index:
\* only the entry of the first date exists
RunBacktestWithoutIndex ==
    /\ pc = "ready"
    /\ NumDates(cfg.table) > 0
    /\ equity_curve' = [d \in {0} |-> Val(cfg.initial_capital * MoneyScale)]
    /\ portfolio_value' = cfg.initial_capital * MoneyScale
    /\ features_cache' = EmptyDict
    /\ i' = 1
    /\ pc' = "loop"
    /\ twin' = Started(twin, cfg)
    /\ UNCHANGED <<cfg, active_pairs, trade_history, pair_performance, log, halted,
                   previous, fe_call, report>>

\* run_backtest up to the loop, lines 65-70
RunBacktest ==
    /\ pc = "ready"
    /\ NumDates(cfg.table) > 0
    /\ equity_curve' = [d \in Dates(cfg.table) |->
                           IF d = 0 THEN Val(cfg.initial_capital * MoneyScale)
                           ELSE NaN]
    /\ portfolio_value' = cfg.initial_capital * MoneyScale
    /\ features_cache' = EmptyDict
    /\ i' = 1
    /\ pc' = "loop"
    /\ twin' = Started(twin, cfg)
    /\ UNCHANGED <<cfg, active_pairs, trade_history, pair_performance, log, halted,
                   previous, fe_call, report>>

\* StepLedger without the try of lines 114-119: the exception of
\* generate_features leaves _prepare_features and fails the step
StepLedgerAbortsOnFeatureFailure(inp) ==
    IF inp.fault.kind = "strategy"
       \/ (i % RefreshInterval = 0 /\ inp.fe.kind = "raise")
    THEN Raise(Ledger(portfolio_value, active_pairs, trade_history,
                      pair_performance, log))
    ELSE ProcessSignalsAndUpdate(
            Ledger(portfolio_value, active_pairs, trade_history, pair_performance,
                   log),
            cfg, i, StepFeatures(i, features_cache, inp.fe), inp)

\* lines 74-92 of the loop body under the inputs inp: what the step's calls
\* leave in the ledger
StepLedger(inp) ==
    IF inp.fault.kind = "strategy"
    THEN Raise(Ledger(portfolio_value, active_pairs, trade_history,
                      pair_performance, log))
    ELSE ProcessSignalsAndUpdate(
            Ledger(portfolio_value, active_pairs, trade_history, pair_performance,
                   IF i % RefreshInterval = 0 /\ inp.fe.kind = "raise"
                   THEN Append(log, LogEntry("feature_engineering_failed", i))
                   ELSE log),
            cfg, i, StepFeatures(i, features_cache, inp.fe), inp)

\* the number of timesteps that have failed so far
ErrorsLogged(lg) == Cardinality({k \in 1 .. Len(lg) : lg[k].kind = "error"})

\* FinishStep with the try around the loop instead of inside it: an
\* exception ends the run
FinishStepAbortsOnError(L, features, checkRaises, breach) ==
    /\ features_cache' = features
    /\ active_pairs' = L.active
    /\ trade_history' = L.trades
    /\ pair_performance' = L.perf
    /\ portfolio_value' = IF L.exc THEN portfolio_value ELSE L.pv
    /\ equity_curve' = IF L.exc THEN equity_curve
                       ELSE [equity_curve EXCEPT ![i] = Val(L.pv)]
    /\ log' = IF L.exc \/ checkRaises THEN Append(L.log, LogEntry("error", i))
              ELSE IF breach THEN Append(L.log, LogEntry("risk_limits", i))
              ELSE L.log
    /\ halted' = (halted \/ breach)
    /\ pc' = IF breach \/ L.exc \/ checkRaises THEN "done" ELSE "loop"
    /\ i' = IF breach \/ L.exc \/ checkRaises THEN i ELSE i + 1
    /\ UNCHANGED <<cfg, previous, fe_call, report>>

\* FinishStep with the risk-limit check moved before line 94: a breach
\* leaves the loop before the step's equity value is recorded
FinishStepChecksFirst(L, features, checkRaises, breach) ==
    /\ features_cache' = features
    /\ active_pairs' = L.active
    /\ trade_history' = L.trades
    /\ pair_performance' = L.perf
    /\ portfolio_value' = IF L.exc THEN portfolio_value ELSE L.pv
    /\ equity_curve' = IF L.exc \/ breach THEN equity_curve
                       ELSE [equity_curve EXCEPT ![i] = Val(L.pv)]
    /\ log' = IF L.exc \/ checkRaises THEN Append(L.log, LogEntry("error", i))
              ELSE IF breach THEN Append(L.log, LogEntry("risk_limits", i))
              ELSE L.log
    /\ halted' = (halted \/ breach)
    /\ pc' = IF breach THEN "done" ELSE "loop"
    /\ i' = IF breach THEN i ELSE i + 1
    /\ UNCHANGED <<cfg, previous, fe_call, report>>

\* lines 94-106 of the loop body: L is the ledger the calls left, checkRaises
\* and breach what check_risk_limits does when it is called
FinishStep(L, features, checkRaises, breach) ==
    /\ cfg.strategy = "free" => Len(L.trades) <= MaxTrades
    /\ cfg.strategy = "free" /\ (L.exc \/ checkRaises) => ErrorsLogged(log) < MaxErrors
    /\ features_cache' = features
    /\ active_pairs' = L.active
    /\ trade_history' = L.trades
    /\ pair_performance' = L.perf
    /\ portfolio_value' = IF L.exc THEN portfolio_value ELSE L.pv
    /\ equity_curve' = IF L.exc THEN equity_curve
                       ELSE [equity_curve EXCEPT ![i] = Val(L.pv)]
    /\ log' = IF L.exc \/ checkRaises THEN Append(L.log, LogEntry("error", i))
              ELSE IF breach THEN Append(L.log, LogEntry("risk_limits", i))
              ELSE L.log
    /\ halted' = (halted \/ breach)
    /\ pc' = IF breach THEN "done" ELSE "loop"
    /\ i' = IF breach THEN i ELSE i + 1
    /\ UNCHANGED <<cfg, previous, fe_call, report>>

\* check_risk_limits is called when the step has not raised and a risk
\* manager is given
Checked(L) == ~L.exc /\ cfg.risk_manager

CheckStep(L, inp) ==
    FinishStep(L, StepFeatures(i, features_cache, inp.fe),
               Checked(L) /\ inp.fault.kind = "check",
               Checked(L) /\ inp.fault.kind # "check" /\ inp.breach)

\* the body of the loop for one date, lines 73-106, under the inputs inp
LoopBody(inp) ==
    /\ pc = "loop"
    /\ i < NumDates(cfg.table)
    /\ CheckStep(StepLedger(inp), inp)
    /\ twin' = Stepped(twin, cfg, inp, StepLedgerOf(twin, cfg, inp))

\* a step in which every collaborator answers and no limit is breached
Step ==
    \E inp \in StepInputs(cfg, i) : LoopBody(inp)

\* predict_signals / generate_signals raises
StepStrategyRaises ==
    /\ Free(cfg, i)
    /\ ~Delivers(cfg)
    /\ \E inp \in QuietInputs(cfg, i) :
          LoopBody([inp EXCEPT !.fault = [kind |-> "strategy", k |-> 0]])

\* a call made while the k-th pair is processed raises: the read of its
\* signal, update_risk_metrics or calculate_position_size
StepPairRaises ==
    /\ Free(cfg, i)
    /\ \E inp \in StepInputs(cfg, i), k \in 1 .. Len(cfg.pairs),
          kind \in {"lookup", "update", "size"} :
          /\ kind \in {"update", "size"} => cfg.risk_manager
          /\ kind = "lookup" => ~Delivers(cfg)
          /\ LoopBody([inp EXCEPT !.fault = [kind |-> kind, k |-> k]])
          /\ log' # log

\* check_risk_limits raises, after the step's equity value was recorded
StepCheckRaises ==
    /\ Free(cfg, i)
    /\ cfg.risk_manager
    /\ \E inp \in StepInputs(cfg, i) :
          LoopBody([inp EXCEPT !.fault = [kind |-> "check", k |-> 0]])

\* check_risk_limits reports a breach: the break of line 102
StepRiskBreach ==
    /\ Free(cfg, i)
    /\ cfg.risk_manager
    /\ \E inp \in StepInputs(cfg, i) : LoopBody([inp EXCEPT !.breach = TRUE])

\* the loop has run out of dates: lines 108-109
Return ==
    /\ pc = "loop"
    /\ i = NumDates(cfg.table)
    /\ pc' = "done"
    /\ twin' = [twin EXCEPT !.pc = "done"]
    /\ UNCHANGED <<cfg, i, portfolio_value, features_cache, equity_curve,
                   active_pairs, trade_history, pair_performance, log, halted,
                   previous, fe_call, report>>

\* run_backtest on a price table without a row: line 66 creates an empty
\* Series and line 69 raises IndexError out of run_backtest
RunBacktestRaises ==
    /\ pc = "ready"
    /\ NumDates(cfg.table) = 0
    /\ equity_curve' = <<>>
    /\ pc' = "raised"
    /\ twin' = Started(twin, cfg)
    /\ UNCHANGED <<cfg, i, portfolio_value, features_cache, active_pairs,
                   trade_history, pair_performance, log, halted, previous,
                   fe_call, report>>

\* the collaborators answer a second run as they answered the first: their
\* answers are a function of the date
Repeatable(c) == c.strategy # "free"

\* run_backtest is called again on the same object, lines 65-70: the curve,
\* the local portfolio_value and the local features_cache are made anew,
\* self.active_pairs, self.trade_history and self.pair_performance are not
\* touched
RunBacktestAgain ==
    /\ pc = "done"
    /\ Repeatable(cfg)
    /\ ~previous.ran
    /\ previous' = [ran |-> TRUE, equity_curve |-> equity_curve,
                    trade_history |-> trade_history]
    /\ equity_curve' = [d \in Dates(cfg.table) |->
                           IF d = 0 THEN Val(cfg.initial_capital * MoneyScale)
                           ELSE NaN]
    /\ portfolio_value' = cfg.initial_capital * MoneyScale
    /\ features_cache' = EmptyDict
    /\ i' = 1
    /\ pc' = "loop"
    /\ halted' = FALSE
    /\ twin' = Started(twin, cfg)
    /\ UNCHANGED <<cfg, active_pairs, trade_history, pair_performance, log, fe_call,
                   report>>

\* the trade records that carry a PnL above 0: the rows of an ENTRY have no
\* value in the column PnL
Winners(trades) ==
    {k \in 1 .. Len(trades) : trades[k].HasPnL /\ trades[k].PnL > 0}

\* _calculate_performance_metrics, the entry Win_Rate as the fraction
\* num / den: the column PnL exists once an EXIT record was appended, and
\* the read of a column that does not exist raises KeyError
CalculatePerformanceMetrics(curve, trades) ==
    IF Cardinality(DOMAIN curve) < 2
    THEN [made |-> TRUE, raised |-> FALSE, num |-> 0, den |-> 1]
    ELSE IF ~(Len(trades) > 0)
    THEN [made |-> TRUE, raised |-> FALSE, num |-> 0, den |-> 1]
    ELSE IF \A k \in 1 .. Len(trades) : ~trades[k].HasPnL
    THEN [made |-> TRUE, raised |-> TRUE, num |-> 0, den |-> 1]
    ELSE [made |-> TRUE, raised |-> FALSE,
          num |-> Cardinality(Winners(trades)), den |-> Len(trades)]

\* generate_report, once run_backtest has returned or raised
GenerateReport ==
    /\ pc \in {"done", "raised"}
    /\ ~report.made
    /\ report' = CalculatePerformanceMetrics(equity_curve, trade_history)
    /\ UNCHANGED <<cfg, pc, i, portfolio_value, features_cache, equity_curve,
                   active_pairs, trade_history, pair_performance, log, halted,
                   twin, previous, fe_call>>

Next ==
    \/ RunBacktest
    \/ RunBacktestRaises
    \/ RunBacktestAgain
    \/ GenerateReport
    \/ Step
    \/ StepStrategyRaises
    \/ StepPairRaises
    \/ StepCheckRaises
    \/ StepRiskBreach
    \/ Return

Spec == Init /\ [][Next]_vars

\* the loop is a for loop over a finite index: each iteration is taken
FairSpec == Spec /\ WF_vars(Next)

----------------------------------------------------------------------------
(* FeatureEngineer.generate_features (src/src/data/feature_engineering.py) *)
(* A call is followed from its entry to its return or its exception:       *)
(*   validate  self.validate                                               *)
(*   symbols   df['Symbol'].unique(): the symbols of df in the order of    *)
(*             their first rows; each has DatesPerSymbol rows              *)
(*   fails     the symbols for which the computation of an indicator       *)
(*             raises                                                      *)
(*   features  the argument features: None, or a list of names             *)
(*   k         the position of the for loop of line 265 in symbols         *)
(*   rows      the rows of result_df, in its order                         *)
(*   columns   the columns of result_df                                    *)
(*   errors    the symbols line 296 has logged                             *)

\* The most symbols a frame given to generate_features has.
MaxSymbols == 2

\* The rows a frame has for each of its symbols.
DatesPerSymbol == 2

SymbolNames == <<"A", "B", "C", "D">>

FeUniverse == {SymbolNames[k] : k \in 1 .. MaxSymbols}

\* the names generate_features knows, lines 271-283
AllFeatures == {"sma", "ema", "wma", "rsi", "macd", "bbands", "volume"}

\* features=None
NoneGiven == [none |-> TRUE, names |-> {}]

\* features=[...]
Listed(names) == [none |-> FALSE, names |-> names]

FeatureSelections ==
    { NoneGiven, Listed({}), Listed({"sma"}), Listed({"sma", "rsi", "bbands"}),
      Listed(AllFeatures) }

\* (features or []): None and the empty list are both falsy
OrEmpty(features) ==
    IF features.none \/ features.names = {} THEN {} ELSE features.names

\* the columns the add_ method of a feature name adds to symbol_data
IndicatorColumns(f) ==
    CASE f = "sma" -> {"SIMPLE_MA_20"}
      [] f = "ema" -> {"EXP_MA_20"}
      [] f = "wma" -> {"WEIGHTED_MA_20"}
      [] f = "rsi" -> {"RSI"}
      [] f = "macd" -> {"MACD", "Signal_Line", "MACD_Histogram"}
      [] f = "bbands" -> {"BB_Middle", "BB_Upper", "BB_Lower", "BB_Bandwidth", "%B"}
      [] OTHER -> {"Volume_SMA", "OBV", "VPT"}

\* the columns of the input frame: a column is a pair of the symbol prefix,
\* empty for the columns of the input, and a name
InputColumns ==
    {<<"", "Date">>, <<"", "Symbol">>, <<"", "Adj_Close">>, <<"", "Volume">>}

\* lines 271-291: the columns of symbol_data when the try block is left
SymbolColumns(symbol, features) ==
    InputColumns
      \cup {<<symbol, col>> :
               col \in UNION {IndicatorColumns(f) : f \in OrEmpty(features)}}

\* line 267: the rows of a symbol, sorted by Date
SymbolData(symbol) ==
    [d \in 1 .. DatesPerSymbol |-> [Date |-> d - 1, Symbol |-> symbol]]

\* the order of sort_values(['Date', 'Symbol'])
RowLess(r, q) ==
    \/ r.Date < q.Date
    \/ r.Date = q.Date /\ SymRank(r.Symbol) < SymRank(q.Symbol)

\* sort_values(['Date', 'Symbol']).reset_index(drop=True) of distinct rows
SortValues(rows) ==
    [p \in 1 .. Len(rows) |->
        rows[CHOOSE k \in 1 .. Len(rows) :
                Cardinality({j \in 1 .. Len(rows) : RowLess(rows[j], rows[k])})
                    = p - 1]]

\* an add_ method is called for the symbol and raises
Fails(call, symbol) == symbol \in call.fails /\ OrEmpty(call.features) # {}

\* the sequences of distinct symbols of FeUniverse
SymbolOrders ==
    {sq \in UNION {[1 .. n -> FeUniverse] : n \in 0 .. MaxSymbols} :
        \A j, k \in DOMAIN sq : j # k => sq[j] # sq[k]}

FeCall(validate, symbols, fails, features) ==
    [pc |-> "called", validate |-> validate, symbols |-> symbols,
     fails |-> fails, features |-> features, k |-> 0, rows |-> <<>>,
     columns |-> {}, errors |-> <<>>]

FeInit ==
    /\ cfg = WorkedConfig
    /\ pc = "ready"
    /\ i = 0
    /\ portfolio_value = cfg.initial_capital * MoneyScale
    /\ features_cache = EmptyDict
    /\ equity_curve = <<>>
    /\ active_pairs = <<>>
    /\ trade_history = <<>>
    /\ pair_performance = <<>>
    /\ log = <<>>
    /\ halted = FALSE
    /\ twin = Construct(cfg)
    /\ previous = NoPrevious
    /\ report = NoReport
    /\ \E validate \in BOOLEAN, symbols \in SymbolOrders,
          features \in FeatureSelections :
          \E fails \in SUBSET Range(symbols) :
              fe_call = FeCall(validate, symbols, fails, features)

\* lines 256-262: _validate_data raises ValueError on a frame without a row
FeValidate ==
    /\ fe_call.pc = "called"
    /\ fe_call' = IF fe_call.validate /\ fe_call.symbols = <<>>
                  THEN [fe_call EXCEPT !.pc = "raised"]
                  ELSE [fe_call EXCEPT !.pc = "loop", !.k = 1]
    /\ UNCHANGED <<cfg, pc, i, portfolio_value, features_cache, equity_curve,
                   active_pairs, trade_history, pair_performance, log, halted,
                   twin, previous, report>>

\* one iteration of the for loop of line 265
FeSymbol ==
    /\ fe_call.pc = "loop"
    /\ fe_call.k <= Len(fe_call.symbols)
    /\ fe_call' =
          IF Fails(fe_call, fe_call.symbols[fe_call.k])
          THEN [fe_call EXCEPT !.k = @ + 1,
                   !.errors = Append(@, fe_call.symbols[fe_call.k])]
          ELSE [fe_call EXCEPT !.k = @ + 1,
                   !.rows = @ \o SymbolData(fe_call.symbols[fe_call.k]),
                   !.columns = @ \cup SymbolColumns(fe_call.symbols[fe_call.k],
                                                    fe_call.features)]
    /\ UNCHANGED <<cfg, pc, i, portfolio_value, features_cache, equity_curve,
                   active_pairs, trade_history, pair_performance, log, halted,
                   twin, previous, report>>

\* line 299: result_df is still the pd.DataFrame() of line 262 when no
\* symbol was concatenated, and sort_values raises KeyError on a frame
\* without the columns it is to sort by
FeReturn ==
    /\ fe_call.pc = "loop"
    /\ fe_call.k > Len(fe_call.symbols)
    /\ fe_call' =
          IF <<"", "Date">> \notin fe_call.columns
          THEN [fe_call EXCEPT !.pc = "raised"]
          ELSE [fe_call EXCEPT !.pc = "returned", !.rows = SortValues(@)]
    /\ UNCHANGED <<cfg, pc, i, portfolio_value, features_cache, equity_curve,
                   active_pairs, trade_history, pair_performance, log, halted,
                   twin, previous, report>>

FeNext ==
    \/ FeValidate
    \/ FeSymbol
    \/ FeReturn

FeSpec == FeInit /\ [][FeNext]_vars

----------------------------------------------------------------------------
(* Vocabulary of the properties *)

Initial == cfg.initial_capital * MoneyScale

\* the dates whose equity value has been recorded
Recorded == {d \in DOMAIN equity_curve : ~equity_curve[d].nan}

Max(S) == CHOOSE x \in S : \A y \in S : y <= x

\* the last equity value recorded
FinalEquity == equity_curve[Max(Recorded)].v

\* the sum of the PnL of the EXIT records of a trade log
SumPnl(trades) ==
    LET sum[k \in 0 .. Len(trades)] ==
            IF k = 0 THEN 0
            ELSE sum[k - 1] + (IF trades[k].Action = "EXIT" THEN trades[k].PnL
                               ELSE 0)
    IN  sum[Len(trades)]

\* the dates at which a step failed with an exception
FailedDates == {log[k].date : k \in {j \in 1 .. Len(log) : log[j].kind = "error"}}

\* the records the step just taken has appended to the trade log
NewRecords == (Len(trade_history) + 1) .. Len(trade_history')

Sign(x) == IF x > 0 THEN 1 ELSE IF x < 0 THEN -1 ELSE 0

\* the price level of a symbol, in units of 1/RetScale
Level(date, s) == Prices(cfg.table, date, s) * RetScale

\* the positions of a trade log's records of one pair
RecordsOf(trades, pair) == {k \in 1 .. Len(trades) : trades[k].Pair = pair}

PairKeys == {AB, AC, BA}

\* the timestep of date i is about to be taken
InLoop == pc = "loop" /\ i < NumDates(cfg.table)

\* the features of the timestep of date i
FeaturesAt(inp) == StepFeatures(i, features_cache, inp.fe)

\* the ledger of the timestep of date i, taken with the inputs inp, after
\* the first k pairs of the raw structure were processed
LedgerAt(inp, k) ==
    ProcessPairsUpTo(Ledger(portfolio_value, active_pairs, trade_history,
                            pair_performance, log),
                     cfg, i, FeaturesAt(inp), inp, k)

\* the inputs of a timestep of date i in which every collaborator answers,
\* or all but calculate_position_size, which raises when it is called for
\* one of the pairs
CallInputs ==
    StepInputs(cfg, i)
      \cup (IF Free(cfg, i) /\ cfg.risk_manager
            THEN {[inp EXCEPT !.fault = [kind |-> "size", k |-> k]] :
                     inp \in StepInputs(cfg, i), k \in 1 .. Len(cfg.pairs)}
            ELSE {})

\* the records a call has appended to the trade log: before is the ledger at
\* the call, after the ledger it leaves
Appended(before, after) ==
    SubSeq(after.trades, Len(before.trades) + 1, Len(after.trades))

\* the call has changed nothing of the ledger but its log
SameBooks(before, after) ==
    /\ after.active = before.active
    /\ after.trades = before.trades
    /\ after.perf = before.perf
    /\ after.pv = before.pv

----------------------------------------------------------------------------
(* C1.  Capital conservation: when a run with transaction_cost = 0 returns *)
(* with no position open, the final recorded equity value is the initial   *)
(* capital plus the sum of the PnL of the EXIT records.                    *)
CapitalConservation ==
    (pc = "done" /\ cfg.transaction_cost = 0 /\ DOMAIN active_pairs = {})
        => FinalEquity = Initial + SumPnl(trade_history)

(* C2.  A recorded equity value is the portfolio cash plus the value of    *)
(* the positions open at that instant: the value recorded by the step that *)
(* opened a position counts that position at its notional, so the open     *)
(* lowers the recorded equity by the entry cost only.                      *)
NotionalOpenedAt(d) ==
    LET idx == {k \in 1 .. Len(trade_history) :
                   /\ trade_history[k].Action = "ENTRY"
                   /\ trade_history[k].Date = d
                   /\ trade_history[k].Pair \in DOMAIN active_pairs}
        sum[k \in 0 .. Len(trade_history)] ==
            IF k = 0 THEN 0
            ELSE sum[k - 1]
                 + (IF k \in idx
                    THEN PositionValue(cfg, trade_history[k].Pair,
                             active_pairs[trade_history[k].Pair].quantity, d)
                    ELSE 0)
    IN  sum[Len(trade_history)]

\* the step of date d has just been taken and has recorded its equity value
JustRecorded(d) ==
    /\ d \in Recorded
    /\ d >= 1
    /\ \/ pc = "loop" /\ i = d + 1
       \/ halted /\ i = d

EquityIncludesOpenPositions ==
    \A d \in DOMAIN equity_curve :
        (JustRecorded(d) /\ \A p \in DOMAIN active_pairs :
                                active_pairs[p].entry_date = d)
            => equity_curve[d].v = portfolio_value + NotionalOpenedAt(d)

(* C3.  The worked scenario: the run opens on day 1 at entry cost 2.01 and *)
(* portfolio value 97987.99 and closes on day 3 at exit prices (103, 101), *)
(* exit cost 2.04, PnL 5.95 and portfolio value 97993.94.                  *)
WorkedScenario ==
    (cfg = WorkedConfig /\ pc = "done") =>
        /\ Len(trade_history) = 2
        /\ trade_history[1].Action = "ENTRY"
        /\ trade_history[1].Date = 1
        /\ trade_history[1].Cost = 20100
        /\ equity_curve[1] = Val(979879900)
        /\ trade_history[2].Action = "EXIT"
        /\ trade_history[2].Date = 3
        /\ trade_history[2].Price1 = 103 * RetScale
        /\ trade_history[2].Price2 = 101 * RetScale
        /\ trade_history[2].Cost = 20400
        /\ trade_history[2].PnL = 59500
        /\ portfolio_value = 979939400
        /\ equity_curve[3] = Val(979939400)

(* C4.  On every close the exit prices of the spread PnL, of the exit cost *)
(* and of the EXIT record are the pair's price levels at the close date.   *)
ClosedAtLevels(position, exit) ==
    LET x1 == Level(exit.Date, exit.Pair[1])
        x2 == Level(exit.Date, exit.Pair[2])
        exitCost == position.quantity * (x1 + x2) * cfg.transaction_cost
    IN  /\ exit.Price1 = x1
        /\ exit.Price2 = x2
        /\ exit.Cost = exitCost
        /\ exit.PnL = position.quantity * Sign(position.signal)
                          * ((x1 - x2) - (position.entry_prices[1]
                                          - position.entry_prices[2])) * 1000
                      - position.transaction_costs - exitCost

ExitUsesPriceLevels ==
    [][\A k \in NewRecords :
          trade_history'[k].Action = "EXIT"
              => ClosedAtLevels(active_pairs[trade_history'[k].Pair],
                                trade_history'[k])]_vars

(* C5.  The PnL of a closed trade depends on the entry signal through its  *)
(* sign only: the stored direction is the sign, and the PnL of a close is  *)
(* the one the same position of direction +1 or -1 gets.                   *)
ClosedBySign(position, exit) ==
    exit.PnL = position.quantity * Sign(position.signal)
                   * ((exit.Price1 - exit.Price2)
                      - (position.entry_prices[1] - position.entry_prices[2]))
                   * 1000
               - position.transaction_costs - exit.Cost

PnlBySignOnly ==
    [][\A k \in NewRecords :
          trade_history'[k].Action = "EXIT"
              => ClosedBySign(active_pairs[trade_history'[k].Pair],
                              trade_history'[k])]_vars

(* C6.  No phantom positions: the ENTRY and EXIT records of a pair         *)
(* alternate, starting with an ENTRY, and a pair is in active_pairs        *)
(* exactly when its last record is an ENTRY.                               *)
Alternates(trades, pair) ==
    \A k \in RecordsOf(trades, pair) :
        trades[k].Action =
            IF Cardinality({j \in RecordsOf(trades, pair) : j < k}) % 2 = 0
            THEN "ENTRY" ELSE "EXIT"

LastIsEntry(trades, pair) ==
    /\ RecordsOf(trades, pair) # {}
    /\ trades[Max(RecordsOf(trades, pair))].Action = "ENTRY"

NoPhantomPositions ==
    /\ DOMAIN active_pairs \subseteq PairKeys
    /\ \A k \in 1 .. Len(trade_history) : trade_history[k].Pair \in PairKeys
    /\ \A pair \in PairKeys :
          /\ Alternates(trade_history, pair)
          /\ pair \in DOMAIN active_pairs <=> LastIsEntry(trade_history, pair)

\* a pair was opened, closed and opened again
ReopenedPair ==
    \E pair \in DOMAIN active_pairs :
        Cardinality(RecordsOf(trade_history, pair)) = 3

(* C7.  Per-step error containment: every iteration of the loop moves to   *)
(* the next date, also when it raises, so each date is visited at most     *)
(* once; the loop is left early only by a risk-limit breach; and until the *)
(* run has returned, whatever the collaborators did, a next step exists.   *)
ErrorContainment ==
    /\ [][(pc = "loop" /\ i < NumDates(cfg.table))
             => \/ pc' = "loop" /\ i' = i + 1
                \/ /\ pc' = "done"
                   /\ halted'
                   /\ log'[Len(log')] = LogEntry("risk_limits", i)]_vars
    /\ [][(pc = "loop" /\ i = NumDates(cfg.table)) => (pc' = "done" /\ ~halted')]_vars
    /\ [](i <= NumDates(cfg.table))
    /\ [](CASE pc = "ready" -> ENABLED (RunBacktest \/ RunBacktestRaises)
            [] pc = "loop" /\ i < NumDates(cfg.table) -> ENABLED Step
            [] pc = "loop" -> ENABLED Return
            [] OTHER -> TRUE)

\* a step failed and the steps after it were taken, to the end of the index
RunSurvivedError ==
    /\ pc = "done"
    /\ ~halted
    /\ i = NumDates(cfg.table)
    /\ \E d \in FailedDates : \E e \in Recorded : e > d

(* C8.  After the run, the equity curve's entry of a date whose step       *)
(* failed equals the entry of the date before it.                          *)
FailedDateCarriesForward ==
    pc = "done" =>
        \A d \in FailedDates :
            /\ ~equity_curve[d].nan
            /\ equity_curve[d] = equity_curve[d - 1]

(* C9.  A risk-limit breach at step t is terminal and follows the step's   *)
(* bookkeeping: the equity value of t is recorded, the loop has stopped,   *)
(* and nothing is processed, traded or recorded for a later date.          *)
BreachIsTerminal ==
    halted =>
        /\ pc = "done"
        /\ i \in Recorded
        /\ equity_curve[i].v = portfolio_value
        /\ \A d \in DOMAIN equity_curve : d > i => equity_curve[d].nan
        /\ \A k \in 1 .. Len(trade_history) : trade_history[k].Date <= i
        /\ \A k \in 1 .. Len(log) : log[k].kind # "insufficient_capital"
                                        => log[k].date <= i
        /\ log[Len(log)] = LogEntry("risk_limits", i)

\* the run was halted by a breach in a step that traded, with dates left
HaltedEarly ==
    /\ halted
    /\ i < NumDates(cfg.table) - 1
    /\ \E k \in 1 .. Len(trade_history) : trade_history[k].Date = i

(* C10.  Within a timestep the pairs are processed in ascending pair-key   *)
(* order whatever the order of the raw signal structure: records of one    *)
(* date are in key order, and when both pairs are signalled and the        *)
(* capital suffices for one position only, the first pair in key order     *)
(* gets it.                                                                *)
CanonicalPairOrder ==
    /\ \A j, k \in 1 .. Len(trade_history) :
          (/\ j < k
           /\ trade_history[j].Date = trade_history[k].Date
           /\ trade_history[j].Pair # trade_history[k].Pair)
              => KeyLess(trade_history[j].Pair, trade_history[k].Pair)
    /\ (cfg.strategy = "both_long" /\ pc = "loop" /\ i = RefreshInterval + 1)
          => DOMAIN active_pairs = {AB}

AllSignalsZero == cfg.strategy = "free" /\ cfg.signals = {0}

ZeroSignalIdempotence ==
    AllSignalsZero =>
        /\ DOMAIN active_pairs = {}
        /\ trade_history = <<>>
        /\ \A d \in DOMAIN equity_curve :
              (pc = "done" \/ d < i) => equity_curve[d] = Val(Initial)

(* C13.  Equity curve shape: from the start of run_backtest on the equity  *)
(* curve has exactly one entry per date of the price index, whether the    *)
(* run halts early or not, and its first entry is the initial capital.     *)
EquityCurveShape ==
    pc \in {"loop", "done"} =>
        /\ DOMAIN equity_curve = Dates(cfg.table)
        /\ Cardinality(DOMAIN equity_curve) = NumDates(cfg.table)
        /\ equity_curve[0] = Val(Initial)

\* a run that traded has returned at the end of the price index
FullCurveAfterTrading ==
    /\ pc = "done"
    /\ ~halted
    /\ trade_history # <<>>
    /\ DOMAIN equity_curve = Dates(cfg.table)

(* C17.  A pair is an unordered ledger key: active_pairs never holds two   *)
(* positions on the same two symbols, and every key of the ledger is in    *)
(* the canonical (lexical) order of its symbols.                           *)
SameSymbols(p, q) == {p[1], p[2]} = {q[1], q[2]}

CanonicalPairKey ==
    /\ \A p, q \in DOMAIN active_pairs : SameSymbols(p, q) => p = q
    /\ \A p \in DOMAIN active_pairs : SymRank(p[1]) < SymRank(p[2])

(* C14.  FLAT to OPEN fires whenever its conditions hold: at any timestep  *)
(* after the first, when the pair about to be processed has no position,   *)
(* its signal is not 0, the confidence passes the gate, the sized quantity *)
(* is positive, the count of open pairs is under max_pairs, both symbols   *)
(* are priced and the position value plus its cost is within the portfolio *)
(* value, then the call leaves the pair in active_pairs at that date's     *)
(* prices, has appended exactly one ENTRY record, and has not raised.      *)
OpenConditions(L, inp, k) ==
    /\ cfg.pairs[k] \notin DOMAIN L.active
    /\ inp.sig[cfg.pairs[k]] # 0
    /\ cfg.risk_manager =>
          Confidence(cfg, cfg.pairs[k], FeaturesAt(inp), inp)
              >= cfg.min_model_confidence
    /\ SizedQuantity(cfg, L.pv, inp.rq) > 0
    /\ cfg.max_pairs # None => Cardinality(DOMAIN L.active) < cfg.max_pairs
    /\ cfg.pairs[k][1] \in Columns(cfg.table)
    /\ cfg.pairs[k][2] \in Columns(cfg.table)
    /\ PositionValue(cfg, cfg.pairs[k], SizedQuantity(cfg, L.pv, inp.rq), i)
         + EntryCost(cfg, cfg.pairs[k], SizedQuantity(cfg, L.pv, inp.rq), i)
           <= L.pv

Opened(L, M, pair) ==
    /\ ~M.exc
    /\ pair \in DOMAIN M.active
    /\ M.active[pair].entry_prices = <<Level(i, pair[1]), Level(i, pair[2])>>
    /\ Len(Appended(L, M)) = 1
    /\ Appended(L, M)[1].Action = "ENTRY"
    /\ Appended(L, M)[1].Pair = pair

FlatToOpenFires ==
    InLoop =>
        \A inp \in StepInputs(cfg, i) : \A k \in 1 .. Len(cfg.pairs) :
            (~LedgerAt(inp, k - 1).exc
             /\ OpenConditions(LedgerAt(inp, k - 1), inp, k))
                => Opened(LedgerAt(inp, k - 1), LedgerAt(inp, k), cfg.pairs[k])

(* C15.  Insufficient capital is a no-op: when the open of a pair is       *)
(* attempted with a position value plus cost above the portfolio value,    *)
(* the call leaves active_pairs, the trade log, pair_performance and the   *)
(* portfolio value as they were at the attempt, logs one warning, does not *)
(* raise, and the next pair of the timestep is processed from that ledger. *)
\* the ledger at the open of pair k: after the close its signal may trigger
AtOpen(inp, k) ==
    CloseOnSignal(LedgerAt(inp, k - 1), cfg, cfg.pairs[k],
                  inp.sig[cfg.pairs[k]], i)

\* _open_position is called for pair k
OpenAttempted(L, inp, k) ==
    /\ cfg.pairs[k] \notin DOMAIN L.active
    /\ inp.sig[cfg.pairs[k]] # 0
    /\ cfg.risk_manager =>
          Confidence(cfg, cfg.pairs[k], FeaturesAt(inp), inp)
              >= cfg.min_model_confidence
    /\ ValidatePairTrade(cfg, L.active, cfg.pairs[k],
                         SizedQuantity(cfg, L.pv, inp.rq))

Shortfall(L, inp, k) ==
    PositionValue(cfg, cfg.pairs[k], SizedQuantity(cfg, L.pv, inp.rq), i)
      + EntryCost(cfg, cfg.pairs[k], SizedQuantity(cfg, L.pv, inp.rq), i)
        > L.pv

InsufficientCapitalIsNoOp ==
    InLoop =>
        \A inp \in StepInputs(cfg, i) : \A k \in 1 .. Len(cfg.pairs) :
            (/\ ~LedgerAt(inp, k - 1).exc
             /\ OpenAttempted(AtOpen(inp, k), inp, k)
             /\ Shortfall(AtOpen(inp, k), inp, k))
                => /\ SameBooks(AtOpen(inp, k), LedgerAt(inp, k))
                   /\ ~LedgerAt(inp, k).exc
                   /\ LedgerAt(inp, k).log
                        = Append(AtOpen(inp, k).log,
                                 [kind |-> "insufficient_capital", date |-> i,
                                  pair |-> cfg.pairs[k]])
                   /\ k < Len(cfg.pairs) =>
                         LedgerAt(inp, k + 1)
                           = ProcessPair(LedgerAt(inp, k), cfg, i,
                                         FeaturesAt(inp), inp, k + 1)

\* a pair was refused for lack of capital and a pair processed after it in
\* the same timestep was opened
ShortfallThenOpen ==
    \E n \in 1 .. Len(log) : \E m \in 1 .. Len(trade_history) :
        /\ log[n].kind = "insufficient_capital"
        /\ trade_history[m].Action = "ENTRY"
        /\ trade_history[m].Date = log[n].date
        /\ \E j, k \in 1 .. Len(cfg.pairs) :
              j < k /\ cfg.pairs[j] = log[n].pair
                    /\ cfg.pairs[k] = trade_history[m].Pair

(* C16.  Close-before-open: when the pair about to be processed is open    *)
(* and its signal is not 0 and of the opposite sign, the call first        *)
(* appends the EXIT record and adds its PnL to the portfolio value, and    *)
(* only then opens: the quantity is sized from, and the capital check made *)
(* against, the portfolio value after the close, the ENTRY record follows  *)
(* the EXIT record, and the open happens whenever its conditions hold for  *)
(* the portfolio value after the close.                                    *)
Reversal(L, inp, k) ==
    /\ cfg.pairs[k] \in DOMAIN L.active
    /\ inp.sig[cfg.pairs[k]] # 0
    /\ inp.sig[cfg.pairs[k]] * L.active[cfg.pairs[k]].signal < 0

\* the position a reversal of pair k may open, sized from the portfolio
\* value pv, when the other pairs hold `others` positions
Reentry(inp, k, pv, others) ==
    [quantity |-> SizedQuantity(cfg, pv, inp.rq),
     value |-> PositionValue(cfg, cfg.pairs[k], SizedQuantity(cfg, pv, inp.rq), i),
     cost |-> EntryCost(cfg, cfg.pairs[k], SizedQuantity(cfg, pv, inp.rq), i),
     allowed |->
        /\ cfg.risk_manager =>
              Confidence(cfg, cfg.pairs[k], FeaturesAt(inp), inp)
                  >= cfg.min_model_confidence
        /\ SizedQuantity(cfg, pv, inp.rq) > 0
        /\ cfg.max_pairs \in {None, 0} \/ others < cfg.max_pairs]

ClosedThenOpened(L, M, inp, k, new, re) ==
    /\ ~M.exc
    /\ Len(new) \in {1, 2}
    /\ new[1].Action = "EXIT" /\ new[1].Pair = cfg.pairs[k] /\ new[1].Date = i
    /\ Len(new) = 1 =>
          /\ cfg.pairs[k] \notin DOMAIN M.active
          /\ M.pv = L.pv + new[1].PnL
          /\ ~(re.allowed /\ re.value + re.cost <= L.pv + new[1].PnL)
    /\ Len(new) = 2 =>
          /\ new[2].Action = "ENTRY" /\ new[2].Pair = cfg.pairs[k]
          /\ new[2].Quantity = re.quantity * inp.sig[cfg.pairs[k]]
          /\ re.allowed
          /\ re.value + re.cost <= L.pv + new[1].PnL
          /\ cfg.pairs[k] \in DOMAIN M.active
          /\ M.active[cfg.pairs[k]].signal = inp.sig[cfg.pairs[k]]
          /\ M.pv = L.pv + new[1].PnL - re.value - re.cost

CloseBeforeOpen ==
    InLoop =>
        \A inp \in StepInputs(cfg, i) : \A k \in 1 .. Len(cfg.pairs) :
            (~LedgerAt(inp, k - 1).exc /\ Reversal(LedgerAt(inp, k - 1), inp, k))
                => ClosedThenOpened(
                       LedgerAt(inp, k - 1), LedgerAt(inp, k), inp, k,
                       Appended(LedgerAt(inp, k - 1), LedgerAt(inp, k)),
                       Reentry(inp, k,
                           LedgerAt(inp, k - 1).pv
                             + Appended(LedgerAt(inp, k - 1),
                                        LedgerAt(inp, k))[1].PnL,
                           Cardinality(DOMAIN LedgerAt(inp, k - 1).active) - 1))

\* a position was closed and the opposite one opened in the same timestep
ReversedInOneStep ==
    \E m \in 1 .. Len(trade_history) - 1 :
        /\ trade_history[m].Action = "EXIT"
        /\ trade_history[m + 1].Action = "ENTRY"
        /\ trade_history[m + 1].Pair = trade_history[m].Pair
        /\ trade_history[m + 1].Date = trade_history[m].Date
        /\ trade_history[m + 1].Quantity * trade_history[m].Quantity > 0

(* C18.  max_pairs cap: when max_pairs is given, active_pairs never holds  *)
(* more than max_pairs positions, and a signal other than 0 for a pair     *)
(* without a position, processed while max_pairs positions are open, opens *)
(* nothing and changes nothing.                                            *)
CapReached(L, inp, k) ==
    /\ cfg.max_pairs # None
    /\ cfg.pairs[k] \notin DOMAIN L.active
    /\ inp.sig[cfg.pairs[k]] # 0
    /\ Cardinality(DOMAIN L.active) >= cfg.max_pairs

MaxPairsCap ==
    /\ cfg.max_pairs # None => Cardinality(DOMAIN active_pairs) <= cfg.max_pairs
    /\ InLoop =>
          \A inp \in StepInputs(cfg, i) : \A k \in 1 .. Len(cfg.pairs) :
              (~LedgerAt(inp, k - 1).exc /\ CapReached(LedgerAt(inp, k - 1), inp, k))
                  => /\ SameBooks(LedgerAt(inp, k - 1), LedgerAt(inp, k))
                     /\ LedgerAt(inp, k).log = LedgerAt(inp, k - 1).log
                     /\ ~LedgerAt(inp, k).exc

(* C19.  Confidence gate: with a risk manager, a signal other than 0 whose *)
(* confidence is under min_model_confidence opens no position: the call    *)
(* appends no ENTRY record, does not ask for a position size (it does not  *)
(* raise when calculate_position_size would), and leaves the ledger as it  *)
(* was but for the close the same signal triggers on an open position of   *)
(* the opposite sign, which is executed.                                   *)
Gated(inp, k) ==
    /\ cfg.risk_manager
    /\ inp.sig[cfg.pairs[k]] # 0
    /\ Confidence(cfg, cfg.pairs[k], FeaturesAt(inp), inp)
          < cfg.min_model_confidence

ClosedOnly(L, M, pair, new) ==
    /\ Len(new) = 1
    /\ new[1].Action = "EXIT" /\ new[1].Pair = pair /\ new[1].Date = i
    /\ DOMAIN M.active = DOMAIN L.active \ {pair}
    /\ M.pv = L.pv + new[1].PnL

ConfidenceGate ==
    InLoop =>
        \A inp \in CallInputs : \A k \in 1 .. Len(cfg.pairs) :
            (~LedgerAt(inp, k - 1).exc /\ Gated(inp, k))
                => /\ ~LedgerAt(inp, k).exc
                   /\ IF Reversal(LedgerAt(inp, k - 1), inp, k)
                      THEN ClosedOnly(LedgerAt(inp, k - 1), LedgerAt(inp, k),
                                      cfg.pairs[k],
                                      Appended(LedgerAt(inp, k - 1),
                                               LedgerAt(inp, k)))
                      ELSE /\ SameBooks(LedgerAt(inp, k - 1), LedgerAt(inp, k))
                           /\ LedgerAt(inp, k).log = LedgerAt(inp, k - 1).log

\* the opposite signal of low confidence has closed the position, and the
\* capital the close left would have paid for the position it did not open
GatedAfterClose ==
    /\ cfg = LowConfidenceConfig
    /\ i = RefreshInterval + 2
    /\ Len(trade_history) = 2
    /\ trade_history[2].Action = "EXIT"
    /\ trade_history[2].Date = RefreshInterval + 1
    /\ DOMAIN active_pairs = {}
    /\ log = <<>>
    /\ portfolio_value >= PositionValue(cfg, AC, 10, RefreshInterval + 1)

(* C20.  Feature cache throttle: the feature engineer is asked exactly at  *)
(* the timesteps whose index is a multiple of the refresh interval of 20,  *)
(* that is each time 20 steps have passed since it was last asked; at      *)
(* every other timestep the cache is left as it is, and the features a     *)
(* position is opened with are those of the most recent recompute.         *)
LastRefresh(date) == RefreshInterval * (date \div RefreshInterval)

RawSlice(date) == [kind |-> "raw", asOf |-> date, empty |-> FALSE, conf |-> 0]

\* the engineer returns a frame without a confidence column
PlainFrame == [kind |-> "frame", empty |-> FALSE, conf |-> 0]

FeatureFailureLogged(lg, date) ==
    \E n \in 1 .. Len(lg) : lg[n] = LogEntry("feature_engineering_failed", date)

FeatureFailureIsolated ==
    /\ [](InLoop /\ i % RefreshInterval = 0 =>
            \A inp \in CallInputs :
                inp.fe.kind = "raise" =>
                    /\ FeaturesAt(inp) = RawSlice(i)
                    /\ SameBooks(StepLedger([inp EXCEPT !.fe = PlainFrame]),
                                 StepLedger(inp))
                    /\ StepLedger(inp).exc
                         = StepLedger([inp EXCEPT !.fe = PlainFrame]).exc
                    /\ FeatureFailureLogged(StepLedger(inp).log, i))
    /\ [][(InLoop /\ FeatureFailureLogged(log', i)
                  /\ ~FeatureFailureLogged(log, i))
             => /\ features_cache' = RawSlice(i)
                /\ pc' \in {"loop", "done"}
                /\ pc' = "loop" => i' = i + 1]_vars

\* the engineer raised at the refresh, the step opened a position with the
\* raw slice and recorded its equity value, and the loop is at the next date
FeatureFailureSurvived ==
    /\ pc = "loop"
    /\ i = RefreshInterval + 1
    /\ FeatureFailureLogged(log, RefreshInterval)
    /\ features_cache = RawSlice(RefreshInterval)
    /\ RefreshInterval \notin FailedDates
    /\ ~equity_curve[RefreshInterval].nan
    /\ \E m \in 1 .. Len(trade_history) :
          /\ trade_history[m].Action = "ENTRY"
          /\ trade_history[m].Date = RefreshInterval

(* C22.  A pair that names a symbol the price table does not carry is      *)
(* skipped in each of the three signal shapes: its iteration leaves the    *)
(* ledger, the log and the portfolio value as they were and does not       *)
(* raise, whatever the read of its signal, update_risk_metrics and         *)
(* calculate_position_size would do when called for it, and the step       *)
(* leaves what it leaves when the signal structure has the priced pairs    *)
(* only.                                                                   *)
Priced(pair) == pair[1] \in Columns(cfg.table) /\ pair[2] \in Columns(cfg.table)

\* the inputs of the timestep of date i under which a call made for the
\* k-th pair raises, or none does
InputsFailingAt(k) ==
    {[inp EXCEPT !.fault = [kind |-> kind, k |-> k]] :
        inp \in StepInputs(cfg, i), kind \in {"none", "lookup", "update", "size"}}

AbsentSymbolSkipped ==
    InLoop =>
        /\ \A k \in 1 .. Len(cfg.pairs) :
              ~Priced(cfg.pairs[k]) =>
                  \A inp \in InputsFailingAt(k) :
                      ~LedgerAt(inp, k - 1).exc
                          => LedgerAt(inp, k) = LedgerAt(inp, k - 1)
        /\ \A inp \in StepInputs(cfg, i) :
              LedgerAt(inp, Len(cfg.pairs))
                = ProcessSignalsAndUpdate(
                      Ledger(portfolio_value, active_pairs, trade_history,
                             pair_performance, log),
                      [cfg EXCEPT !.pairs = SelectSeq(cfg.pairs, Priced)],
                      i, FeaturesAt(inp), inp)

\* the first pair of a wide signal frame was skipped and the second opened
SkippedThenOpened ==
    /\ cfg = AbsentSymbolConfig("wide")
    /\ pc = "loop"
    /\ i = RefreshInterval + 1
    /\ ~Priced(cfg.pairs[1])
    /\ DOMAIN active_pairs = {AB}
    /\ Len(trade_history) = 1
    /\ trade_history[1].Pair = AB
    /\ log = <<>>

(* C23.  Construction validates the price table: no backtester exists      *)
(* whose price table is empty or has fewer than two symbols, because its   *)
(* construction has failed, and run_backtest never starts on such a table. *)
ValidPriceTable(table) ==
    NumDates(table) > 0 /\ Cardinality(Columns(table)) >= 2

ConstructionValidates ==
    pc \in {"ready", "loop", "done", "raised"} => ValidPriceTable(cfg.table)

(* C24.  generate_features called with features=None generates every      *)
(* indicator: the columns of the frame it returns are those it returns     *)
(* when all seven feature names are listed.                                *)
NoneGeneratesAll ==
    (fe_call.pc = "returned" /\ fe_call.features.none)
        => fe_call.columns
             = UNION {SymbolColumns(symbol, Listed(AllFeatures)) :
                         symbol \in Range(fe_call.symbols)}

(* C25.  An open position is closed by the call made for its pair exactly  *)
(* when the signal is 0 or of the opposite sign; on a signal of the same   *)
(* sign the call leaves the whole ledger as it was, and no step changes a  *)
(* position it does not close.                                             *)
ClosingSignal(position, signal) ==
    signal = 0 \/ Sign(signal) = -Sign(position.signal)

ClosedFirst(new, pair) ==
    /\ Len(new) >= 1
    /\ new[1].Action = "EXIT" /\ new[1].Pair = pair /\ new[1].Date = i

PositionHeldOrClosed ==
    /\ [](InLoop =>
            \A inp \in CallInputs : \A k \in 1 .. Len(cfg.pairs) :
                (/\ ~LedgerAt(inp, k - 1).exc
                 /\ cfg.pairs[k] \in DOMAIN LedgerAt(inp, k - 1).active)
                    => IF ClosingSignal(LedgerAt(inp, k - 1).active[cfg.pairs[k]],
                                        inp.sig[cfg.pairs[k]])
                       THEN ClosedFirst(Appended(LedgerAt(inp, k - 1),
                                                 LedgerAt(inp, k)),
                                        cfg.pairs[k])
                       ELSE LedgerAt(inp, k) = LedgerAt(inp, k - 1))
    /\ [][\A p \in DOMAIN active_pairs \cap DOMAIN active_pairs' :
             active_pairs'[p] # active_pairs[p]
                 => \E n \in NewRecords :
                       /\ trade_history'[n].Action = "EXIT"
                       /\ trade_history'[n].Pair = p]_vars

\* a position opened at the refresh is still the same two dates later, the
\* strategy having repeated its signal at the date between
HeldThroughSameSign ==
    /\ cfg.strategy = "both_long"
    /\ pc = "loop"
    /\ i = RefreshInterval + 2
    /\ \E p \in DOMAIN active_pairs :
          /\ active_pairs[p].entry_date = RefreshInterval
          /\ \A m \in RecordsOf(trade_history, p) :
                trade_history[m].Action = "ENTRY"

(* C26.  The win rate of the report is the number of closed trades with a  *)
(* PnL above 0 divided by the number of closed trades, 0 when no trade was *)
(* closed, and generate_report returns it without raising for every trade  *)
(* log a run leaves.                                                       *)
ClosedTrades(trades) == {k \in 1 .. Len(trades) : trades[k].Action = "EXIT"}

WinRateOfClosedTrades ==
    (report.made /\ ~previous.ran) =>
        /\ ~report.raised
        /\ IF ClosedTrades(trade_history) = {} THEN report.num = 0
           ELSE report.num * Cardinality(ClosedTrades(trade_history))
                  = Cardinality(Winners(trade_history)) * report.den

(* C27.  generate_features tolerates the failure of any set of symbols:    *)
(* called with a frame that has rows, it returns, and the rows of the      *)
(* frame it returns are the rows of the symbols that have not failed.      *)
PerSymbolFailuresTolerated ==
    (fe_call.pc \in {"returned", "raised"} /\ fe_call.symbols # <<>>) =>
        /\ fe_call.pc = "returned"
        /\ Range(fe_call.rows)
             = UNION {Range(SymbolData(symbol)) :
                         symbol \in {sy \in Range(fe_call.symbols) :
                                        ~Fails(fe_call, sy)}}

(* C28.  Cash and ledger agree at every step boundary of a first run whose *)
(* signals are -1, 0 or 1: the portfolio value carried to the next date is *)
(* the initial capital, less the notional and the cost of every ENTRY      *)
(* record, plus the PnL of every EXIT record.                              *)
Abs(x) == IF x < 0 THEN -x ELSE x

\* the notional of an ENTRY record of a signal of magnitude 1, in money
\* units: the prices of a record are in units of 1/RetScale
RecordNotional(record) ==
    Abs(record.Quantity) * (record.Price1 + record.Price2)
        * (MoneyScale \div RetScale)

SumEntries(trades) ==
    LET sum[k \in 0 .. Len(trades)] ==
            IF k = 0 THEN 0
            ELSE sum[k - 1]
                   + (IF trades[k].Action = "ENTRY"
                      THEN RecordNotional(trades[k]) + trades[k].Cost ELSE 0)
    IN  sum[Len(trades)]

UnitSignals == cfg.signals \subseteq {-1, 0, 1}

CashMatchesLedger ==
    (pc = "loop" /\ ~previous.ran /\ UnitSignals) =>
        portfolio_value
          = Initial - SumEntries(trade_history) + SumPnl(trade_history)

(* C29.  Opening never overdraws: a call that opens a position takes its   *)
(* notional and its cost out of a portfolio value that is at least their   *)
(* sum and leaves a portfolio value of at least 0; and as long as no       *)
(* closed trade has a negative PnL the portfolio value is at least 0.      *)
\* the notional of a position, in money units
Notional(position) ==
    position.quantity * (position.entry_prices[1] + position.entry_prices[2])
        * (MoneyScale \div RetScale)

\* the open that took the ledger L to M was paid out of L.pv
PaidFrom(L, M, position) ==
    /\ Notional(position) + position.transaction_costs <= L.pv
    /\ M.pv = L.pv - Notional(position) - position.transaction_costs
    /\ M.pv >= 0

NeverOverdraws ==
    /\ InLoop =>
          \A inp \in CallInputs : \A k \in 1 .. Len(cfg.pairs) :
              (/\ ~LedgerAt(inp, k - 1).exc
               /\ Len(LedgerAt(inp, k).trades) > Len(AtOpen(inp, k).trades))
                  => /\ cfg.pairs[k] \in DOMAIN LedgerAt(inp, k).active
                     /\ PaidFrom(AtOpen(inp, k), LedgerAt(inp, k),
                                 LedgerAt(inp, k).active[cfg.pairs[k]])
    /\ (\A m \in ClosedTrades(trade_history) : trade_history[m].PnL >= 0)
          => portfolio_value >= 0

\* a position was opened at the last date and what is left would not pay
\* for a second one of its size
OpenedToTheLimit ==
    /\ pc = "loop"
    /\ \E p \in DOMAIN active_pairs :
          /\ active_pairs[p].entry_date = i - 1
          /\ portfolio_value >= 0
          /\ portfolio_value < Notional(active_pairs[p])

(* C30.  Re-running is idempotent: a second call of run_backtest on the    *)
(* same object starts from an empty ledger and the initial capital, and    *)
(* returns with the equity curve and the trade log the first call left.    *)
RerunIsIdempotent ==
    previous.ran =>
        /\ (pc = "loop" /\ i = 1) =>
              /\ DOMAIN active_pairs = {}
              /\ trade_history = <<>>
              /\ portfolio_value = Initial
        /\ pc = "done" =>
              /\ equity_curve = previous.equity_curve
              /\ trade_history = previous.trade_history


====
